---- MODULE Spec2Model ----
(***************************************************************************)
(* A model of the media-indexing core of rk-media-server: MediaService     *)
(* (library registry, scan, upload ingestion, directory listings), the     *)
(* two entities it persists, and the controller and exception filter that  *)
(* turn its failures into HTTP statuses.                                   *)
(*                                                                         *)
(* Strings are sequences of one-character strings, so that path.normalize, *)
(* the traversal-stripping regular expression, path.extname, toLowerCase   *)
(* and padStart are computed character by character as the code computes   *)
(* them.  An absolute POSIX path is the sequence of its segments; the root *)
(* "/" is the empty sequence.                                              *)
(***************************************************************************)
EXTENDS Integers, Sequences, FiniteSets, TLC

VARIABLES libs, items, files, unreadable, noStat, tasks, last, nextLibId, nextItemId, scanned, ops

vars == <<libs, items, files, unreadable, noStat, tasks, last, nextLibId, nextItemId, scanned, ops>>

----------------------------------------------------------------------------
(* Bounds of the model *)

MaxOps == 3

----------------------------------------------------------------------------
(* Strings and the path module (POSIX) *)

Last(s) == s[Len(s)]

Front(s) == SubSeq(s, 1, Len(s) - 1)

IsAbsolute(s) == Len(s) > 0 /\ s[1] = "/"

RECURSIVE SplitFrom(_, _, _)
SplitFrom(s, i, cur) ==
  IF i > Len(s) THEN <<cur>>
  ELSE IF s[i] = "/" THEN <<cur>> \o SplitFrom(s, i + 1, <<>>)
  ELSE SplitFrom(s, i + 1, Append(cur, s[i]))

Split(s) == SplitFrom(s, 1, <<>>)

DotDot == <<".", ".">>

Dot == <<".">>

RECURSIVE NormalizeString(_, _, _, _)
NormalizeString(segs, i, res, allowAboveRoot) ==
  IF i > Len(segs) THEN res
  ELSE LET g == segs[i] IN
    IF g = <<>> \/ g = Dot THEN NormalizeString(segs, i + 1, res, allowAboveRoot)
    ELSE IF g = DotDot THEN
      IF Len(res) > 0 /\ Last(res) # DotDot
        THEN NormalizeString(segs, i + 1, Front(res), allowAboveRoot)
      ELSE IF allowAboveRoot
        THEN NormalizeString(segs, i + 1, Append(res, DotDot), allowAboveRoot)
      ELSE NormalizeString(segs, i + 1, res, allowAboveRoot)
    ELSE NormalizeString(segs, i + 1, Append(res, g), allowAboveRoot)

RECURSIVE Join(_)
Join(segs) ==
  IF Len(segs) = 0 THEN <<>>
  ELSE IF Len(segs) = 1 THEN segs[1]
  ELSE segs[1] \o <<"/">> \o Join(Tail(segs))

Normalize(s) ==
  IF Len(s) = 0 THEN Dot
  ELSE LET abs == IsAbsolute(s)
           trailing == Last(s) = "/"
           body == Join(NormalizeString(Split(s), 1, <<>>, ~abs))
       IN IF Len(body) = 0
            THEN (IF abs THEN <<"/">> ELSE IF trailing THEN <<".", "/">> ELSE Dot)
          ELSE (IF abs THEN <<"/">> ELSE <<>>) \o body \o (IF trailing THEN <<"/">> ELSE <<>>)

RECURSIVE StripLeadingDotDot(_)
StripLeadingDotDot(s) ==
  IF Len(s) >= 2 /\ s[1] = "." /\ s[2] = "."
    THEN IF Len(s) = 2 THEN <<>>
         ELSE IF s[3] = "/" \/ s[3] = "\\" THEN StripLeadingDotDot(SubSeq(s, 4, Len(s)))
         ELSE s
  ELSE s

Resolve(base, rel) ==
  IF IsAbsolute(rel) THEN NormalizeString(Split(rel), 1, <<>>, FALSE)
  ELSE NormalizeString(base \o Split(rel), 1, <<>>, FALSE)

Dirname(p) == IF Len(p) = 0 THEN p ELSE Front(p)

Basename(p) == IF Len(p) = 0 THEN <<>> ELSE Last(p)

JoinRel(rel, name) == IF Len(rel) = 0 THEN Normalize(name) ELSE Normalize(rel \o <<"/">> \o name)

BasenameStr(s) ==
  LET segs == NormalizeString(Split(s), 1, <<>>, TRUE)
  IN IF Len(segs) = 0 THEN <<>> ELSE Last(segs)

RECURSIVE LastDot(_, _)
LastDot(g, i) == IF i = 0 THEN 0 ELSE IF g[i] = "." THEN i ELSE LastDot(g, i - 1)

Extname(g) ==
  LET d == LastDot(g, Len(g))
  IN IF d <= 1 \/ g = DotDot THEN <<>> ELSE SubSeq(g, d, Len(g))

LowerChar(c) ==
  CASE c = "M" -> "m" [] c = "K" -> "k" [] c = "V" -> "v" [] c = "P" -> "p"
    [] c = "A" -> "a" [] c = "B" -> "b" [] OTHER -> c

ToLowerCase(s) == [i \in 1..Len(s) |-> LowerChar(s[i])]

supportedExtensions ==
  { <<".", "m", "p", "4">>, <<".", "m", "k", "v">>, <<".", "a", "v", "i">>,
    <<".", "m", "o", "v">>, <<".", "f", "l", "v">> }

(* A membership test that compares the extension as it is written *)
IsSupported_CaseSensitive(name) == Extname(name) \in supportedExtensions

IsSupported(name) == ToLowerCase(Extname(name)) \in supportedExtensions

IsPrefix(p, q) == Len(p) <= Len(q) /\ SubSeq(q, 1, Len(p)) = p

----------------------------------------------------------------------------
(* secondsToHMS.  A probed duration is a number of tenths of a second, so  *)
(* that fractional seconds (5425.7) are inputs of the conversion.          *)

Tenths == 10

Digit(d) ==
  CASE d = 0 -> "0" [] d = 1 -> "1" [] d = 2 -> "2" [] d = 3 -> "3" [] d = 4 -> "4"
    [] d = 5 -> "5" [] d = 6 -> "6" [] d = 7 -> "7" [] d = 8 -> "8" [] OTHER -> "9"

RECURSIVE NumToString(_)
NumToString(n) == IF n < 10 THEN <<Digit(n)>> ELSE Append(NumToString(n \div 10), Digit(n % 10))

PadStart2(s) == IF Len(s) >= 2 THEN s ELSE <<"0">> \o s

(* A conversion that rounds each field to nearest rather than flooring it *)
secondsToHMS_Rounded(totalSeconds) ==
  LET hours == (totalSeconds + 1800 * Tenths) \div (3600 * Tenths)
      minutes == ((totalSeconds % (3600 * Tenths)) + 30 * Tenths) \div (60 * Tenths)
      seconds == ((totalSeconds % (60 * Tenths)) + Tenths \div 2) \div Tenths
  IN PadStart2(NumToString(hours)) \o <<":">> \o PadStart2(NumToString(minutes))
       \o <<":">> \o PadStart2(NumToString(seconds))

secondsToHMS(totalSeconds) ==
  LET hours == totalSeconds \div (3600 * Tenths)
      minutes == (totalSeconds % (3600 * Tenths)) \div (60 * Tenths)
      seconds == (totalSeconds % (60 * Tenths)) \div Tenths
  IN PadStart2(NumToString(hours)) \o <<":">> \o PadStart2(NumToString(minutes))
       \o <<":">> \o PadStart2(NumToString(seconds))

(* The result of one ffprobe call: it throws (ok = FALSE), it returns no   *)
(* format.duration (hasDur = FALSE), or it returns a duration of t tenths. *)
ProbeFail == [ok |-> FALSE, hasDur |-> FALSE, t |-> 0]

ProbeNone == [ok |-> TRUE, hasDur |-> FALSE, t |-> 0]

ProbeDur(t) == [ok |-> TRUE, hasDur |-> TRUE, t |-> t]

Null == [isNull |-> TRUE, str |-> <<>>]

Some(s) == [isNull |-> FALSE, str |-> s]

DurationOf(probe) == IF probe.ok /\ probe.hasDur THEN Some(secondsToHMS(probe.t)) ELSE Null

----------------------------------------------------------------------------
(* sanitize-filename, on the characters the model's names are made of *)

IllegalChars == {"/", "?", "<", ">", "\\", ":", "*", "|", "\""}

RECURSIVE RemoveIllegal(_)
RemoveIllegal(s) ==
  IF Len(s) = 0 THEN s
  ELSE IF s[1] \in IllegalChars THEN RemoveIllegal(Tail(s))
  ELSE <<s[1]>> \o RemoveIllegal(Tail(s))

RECURSIVE StripTrailing(_)
StripTrailing(s) ==
  IF Len(s) > 0 /\ Last(s) \in {".", " "} THEN StripTrailing(Front(s)) ELSE s

sanitize(name) == StripTrailing(RemoveIllegal(name))

----------------------------------------------------------------------------
(* The filesystem.  Directories are fixed (the service never creates or   *)
(* removes one); regular files are added or overwritten by uploads.       *)

nM == <<"m">>

nL == <<"l">>

nS == <<"s">>

nE == <<"e">>

fA == <<"a", ".", "m", "p", "4">>

fB == <<"b", ".", "M", "K", "V">>

fN == <<"n", ".", "t", "x", "t">>

fD == <<"d", ".", "a", "v", "i">>

fE == <<"e", ".", "m", "o", "v">>

fF == <<"f", ".", "f", "l", "v">>

fG == <<"g", ".", "m", "p", "4">>

baseDir == <<nM>>

Dirs == { <<>>, <<nM>>, <<nM, nL>>, <<nM, nL, nS>>, <<nE>> }

InitialFiles ==
  ( <<nM, nL, fA>> :> [size |-> 7, probe |-> ProbeDur(54257)] )
  @@ ( <<nM, nL, nS, fB>> :> [size |-> 9, probe |-> ProbeFail] )
  @@ ( <<nM, nL, fN>> :> [size |-> 1, probe |-> ProbeNone] )
  @@ ( <<nM, nL, fD>> :> [size |-> 2, probe |-> ProbeDur(599)] )
  @@ ( <<nM, nL, fE>> :> [size |-> 4, probe |-> ProbeDur(600)] )
  @@ ( <<nM, nL, fF>> :> [size |-> 5, probe |-> ProbeDur(35999)] )
  @@ ( <<nM, nL, fG>> :> [size |-> 8, probe |-> ProbeDur(36000)] )

UnreadableCandidates == { <<nM, nL, nS>> }

NoStatCandidates == { <<nM, nL, fA>> }

IsFile(p) == p \in DOMAIN files

IsDir(p) == p \in Dirs

existsSync(p) == IsDir(p) \/ (IsFile(p) /\ p \notin noStat)

ExistingDirectory(p) == existsSync(p) /\ IsDir(p)

RECURSIVE findExistingDir(_)
findExistingDir(startPath) ==
  IF ExistingDirectory(startPath) THEN <<startPath>>
  ELSE IF Dirname(startPath) = startPath THEN <<>>
  ELSE findExistingDir(Dirname(startPath))

Children(dir) == { p \in Dirs \cup DOMAIN files : Len(p) = Len(dir) + 1 /\ Front(p) = dir }

RECURSIVE SetToSeq(_)
SetToSeq(S) == IF S = {} THEN <<>> ELSE LET x == CHOOSE y \in S : TRUE IN <<x>> \o SetToSeq(S \ {x})

(* readdir(dir): the entries of one directory, or a failure *)
CanRead(dir) == IsDir(dir) /\ dir \notin unreadable

readdir(dir) == SetToSeq(Children(dir))

CanStat(p) == (IsDir(p) \/ IsFile(p)) /\ p \notin noStat

----------------------------------------------------------------------------
(* The HTTP layer: MediaController and the globally registered filter *)

Thrown(err) ==
  CASE err = "NotFound" -> [class |-> "NotFoundException", status |-> 404]
    [] err = "BadRequest" -> [class |-> "BadRequestException", status |-> 400]
    [] err = "Conflict" -> [class |-> "ConflictException", status |-> 409]
    [] err = "Forbidden" -> [class |-> "ForbiddenException", status |-> 403]
    [] OTHER -> [class |-> "Error", status |-> 0]

IsHttpException(exc) == exc.class # "Error"

(* getDirectories and getMovies: catch, rethrow as a plain HttpException *)
RethrowAsHttpException(exc) ==
  [class |-> "HttpException", status |-> IF exc.status # 0 THEN exc.status ELSE 500]

(* handleError of uploadDirectory and scanLibrary *)
handleError(exc) == IF IsHttpException(exc) THEN exc ELSE RethrowAsHttpException(exc)

ControllerThrows(op, exc) ==
  CASE op \in {"dirs", "movies"} -> RethrowAsHttpException(exc)
    [] op \in {"upload", "scan"} -> handleError(exc)
    [] OTHER -> exc

(* NotFoundExceptionFilter (APP_FILTER) answers a NotFoundException with   *)
(* the UI's index.html and status 200; every other exception reaches the   *)
(* framework's default handler.                                            *)
NotFoundExceptionFilterCatches(exc) == exc.class = "NotFoundException"

ResponseStatus(exc) ==
  IF NotFoundExceptionFilterCatches(exc) THEN 200
  ELSE IF IsHttpException(exc) THEN exc.status
  ELSE 500

SuccessStatus(op) ==
  CASE op = "delete" -> 204
    [] op \in {"dirs", "movies"} -> 200
    [] OTHER -> 201

HttpStatus(op, err) ==
  IF err = "ok" THEN SuccessStatus(op) ELSE ResponseStatus(ControllerThrows(op, Thrown(err)))

----------------------------------------------------------------------------

(* The two repositories and the requests in flight *)

Slots == 1..2

NoLib == [id |-> 0, name |-> <<>>, path |-> <<>>]

(* A request in flight: the call's arguments and locals, and eff, which    *)
(* records whether the call has probed a file or written one so far.  work *)
(* is a scan's entries still to visit and an upload's files argument;      *)
(* queue is the part of the files the upload's loop has not reached.       *)
Idle ==
  [op |-> "idle", id |-> 0, name |-> <<>>, path |-> <<>>, lib |-> NoLib,
   work |-> <<>>, queue |-> <<>>, pending |-> <<>>, eff |-> FALSE]

(* The latest completed request: its arguments, the core's outcome, the    *)
(* status the client received, for a listing the entries returned, and the *)
(* number of repository saves the call issued.                             *)
NoResponse ==
  [op |-> "none", id |-> 0, name |-> <<>>, path |-> <<>>, err |-> "none", http |-> 0,
   out |-> {}, eff |-> FALSE, saves |-> 0]

Response(op, id, err, eff) ==
  [NoResponse EXCEPT !.op = op, !.id = id, !.err = err, !.http = HttpStatus(op, err), !.eff = eff]

(* The response of a call that issued its one repository save *)
AfterSave(response) == [response EXCEPT !.saves = 1]

(* A lookup that ignores the id and answers with any library *)
FindLibraryById_AnyLibrary(id) == libs

(* mediaLibraryRepository.findOne({ where: { id } }) *)
FindLibraryById(id) == { l \in libs : l.id = id }

(* mediaLibraryRepository.findOne({ where: { name } }) *)
FindLibraryByName(name) == { l \in libs : l.name = name }

(* A lookup that passes over Items without a duration, so that their files *)
(* are probed again                                                        *)
FindItemByPath_WithDurationOnly(p) == { i \in items : i.filepath = p /\ ~i.duration.isNull }

(* A lookup that never finds an Item *)
FindItemByPath_FindsNothing(p) == {}

(* mediaItemRepository.findOne({ where: { filepath } }) *)
FindItemByPath(p) == { i \in items : i.filepath = p }

(* The schema synchronize: true creates from the entities: name is UNIQUE, *)
(* and MediaItem.library is a foreign key with no onDelete action, which   *)
(* the sqlite driver enforces.                                             *)
UniqueNameHolds(name) == FindLibraryByName(name) = {}

(* A schema without the foreign key *)
ForeignKeyHolds_NotEnforced(libId) == TRUE

ForeignKeyHolds(libId) == FindLibraryById(libId) # {}

ReferencedByItem(libId) == \E i \in items : i.library = libId

Busy(t) == tasks[t].op # "idle"

(* A save that writes only the first entity of the batch *)
WithIds_OnlyFirst(pending, first) ==
  IF Len(pending) = 0 THEN {}
  ELSE { [id |-> first, filename |-> pending[1].filename, filepath |-> pending[1].filepath,
          size |-> pending[1].size, duration |-> pending[1].duration,
          library |-> pending[1].library, probed |-> pending[1].probed] }

RECURSIVE WithIds(_, _)
WithIds(pending, first) ==
  IF Len(pending) = 0 THEN {}
  ELSE { [id |-> first, filename |-> pending[1].filename, filepath |-> pending[1].filepath,
          size |-> pending[1].size, duration |-> pending[1].duration,
          library |-> pending[1].library, probed |-> pending[1].probed] }
       \cup WithIds(Tail(pending), first + 1)

----------------------------------------------------------------------------
(* Inputs of the requests *)

LibIds == {1, 2}

LibraryNames == { <<"A">>, <<"B">>, <<"A", "/">> }

LibraryPaths == { <<"l">>, <<"/", "m", "/", "l", "/", "s">>, <<"/", "z">> }

ListPaths == { <<"l">>, <<"l", "/", "s">>, <<"l", "/">> \o fN, <<"z">> }

(* An uploaded file: the filename the client sent, the name kept for the   *)
(* Item, the size, and what probing the written bytes yields.              *)
UploadFiles ==
  { [filename |-> <<"c">>, name |-> <<"c">>, size |-> 3, probe |-> ProbeDur(0)],
    [filename |-> <<"l", "/", "q", "/">> \o fA, name |-> <<"l", "/", "q", "/">> \o fA, size |-> 4,
     probe |-> ProbeNone],
    [filename |-> <<".", ".", "/", ".", ".", "\\", "/", "e", "/", "x">>, name |-> <<"x">>,
     size |-> 6, probe |-> ProbeDur(36000 * 100 + 599)] }

FileNamed(filename) == CHOOSE f \in UploadFiles : f.filename = filename

Batches ==
  { <<FileNamed(<<"c">>)>>,
    <<FileNamed(<<"c">>), FileNamed(<<"c">>)>>,
    <<FileNamed(<<"l", "/", "q", "/">> \o fA)>>,
    <<FileNamed(<<".", ".", "/", ".", ".", "\\", "/", "e", "/", "x">>)>> }

AbsolutePath(pathStr) == Resolve(baseDir, pathStr)

Begin == ops < MaxOps /\ ops' = ops + 1

----------------------------------------------------------------------------
(* createLibrary *)

(* createLibrary without the lookup by name *)
CreateError_NoNameLookup(name, pathStr) ==
  IF sanitize(name) # name THEN "BadRequest"
  ELSE IF ~ExistingDirectory(AbsolutePath(pathStr)) THEN "NotFound"
  ELSE "none"

CreateError(name, pathStr) ==
  IF sanitize(name) # name THEN "BadRequest"
  ELSE IF FindLibraryByName(sanitize(name)) # {} THEN "Conflict"
  ELSE IF ~ExistingDirectory(AbsolutePath(pathStr)) THEN "NotFound"
  ELSE "none"

CreateStart(t, name, pathStr) ==
  /\ ~Busy(t) /\ Begin
  /\ IF CreateError(name, pathStr) # "none"
       THEN /\ last' = [Response("create", 0, CreateError(name, pathStr), FALSE) EXCEPT
                          !.name = name, !.path = pathStr]
            /\ UNCHANGED tasks
       ELSE /\ tasks' = [tasks EXCEPT ![t] =
                 [Idle EXCEPT !.op = "create", !.name = name, !.path = pathStr,
                              !.lib = [id |-> 0, name |-> sanitize(name),
                                       path |-> AbsolutePath(pathStr)]]]
            /\ UNCHANGED last
  /\ UNCHANGED <<libs, items, files, unreadable, noStat, nextLibId, nextItemId, scanned>>

CreateSave(t) ==
  /\ tasks[t].op = "create"
  /\ IF UniqueNameHolds(tasks[t].lib.name)
       THEN /\ libs' = libs \cup {[tasks[t].lib EXCEPT !.id = nextLibId]}
            /\ nextLibId' = nextLibId + 1
            /\ last' = [AfterSave(Response("create", nextLibId, "ok", FALSE)) EXCEPT
                          !.name = tasks[t].name, !.path = tasks[t].path]
       ELSE /\ last' = [AfterSave(Response("create", 0, "Unexpected", FALSE)) EXCEPT
                          !.name = tasks[t].name, !.path = tasks[t].path]
            /\ UNCHANGED <<libs, nextLibId>>
  /\ tasks' = [tasks EXCEPT ![t] = Idle]
  /\ UNCHANGED <<items, files, unreadable, noStat, nextItemId, scanned, ops>>

----------------------------------------------------------------------------
(* deleteLibrary *)

DeleteStart(t, id) ==
  /\ ~Busy(t) /\ Begin
  /\ IF FindLibraryById(id) = {}
       THEN /\ last' = Response("delete", id, "NotFound", FALSE)
            /\ UNCHANGED tasks
       ELSE /\ tasks' = [tasks EXCEPT ![t] =
                 [Idle EXCEPT !.op = "delete", !.id = id,
                              !.lib = CHOOSE l \in FindLibraryById(id) : TRUE]]
            /\ UNCHANGED last
  /\ UNCHANGED <<libs, items, files, unreadable, noStat, nextLibId, nextItemId, scanned>>

(* mediaLibraryRepository.remove(library): one DELETE of the library row.  *)
(* The library was loaded without its mediaItems, so nothing cascades, and *)
(* the foreign key of an Item that references the row rejects the DELETE.  *)
RemoveLibraryFails(id) == FindLibraryById(id) # {} /\ ReferencedByItem(id)

DeleteRemove(t) ==
  /\ tasks[t].op = "delete"
  /\ IF RemoveLibraryFails(tasks[t].id)
       THEN /\ last' = Response("delete", tasks[t].id, "Unexpected", FALSE)
            /\ UNCHANGED libs
       ELSE /\ libs' = { l \in libs : l.id # tasks[t].id }
            /\ last' = Response("delete", tasks[t].id, "ok", FALSE)
  /\ tasks' = [tasks EXCEPT ![t] = Idle]
  /\ UNCHANGED <<items, files, unreadable, noStat, nextLibId, nextItemId, scanned, ops>>

----------------------------------------------------------------------------
(* getSubdirectories and getScannableMovies *)

(* A listing that checks existence but not that the target is a directory *)
ListError_NoDirectoryCheck(absolutePath) ==
  IF ~existsSync(absolutePath) THEN "NotFound"
  ELSE IF ~CanRead(absolutePath) THEN "Forbidden"
  ELSE "ok"

ListError(absolutePath) ==
  IF ~ExistingDirectory(absolutePath) THEN "NotFound"
  ELSE IF ~CanRead(absolutePath) THEN "Forbidden"
  ELSE "ok"

Subdirectories(currentPath) ==
  { [name |-> Last(p), path |-> JoinRel(currentPath, Last(p)), size |-> 0]
      : p \in { c \in Children(AbsolutePath(currentPath)) : IsDir(c) } }

StatSize(p) == IF CanStat(p) /\ IsFile(p) THEN files[p].size ELSE 0

ScannableMovies(directoryPath) ==
  { [name |-> Last(p), path |-> JoinRel(directoryPath, Last(p)),
     size |-> StatSize(Resolve(baseDir, JoinRel(directoryPath, Last(p))))]
      : p \in { c \in Children(AbsolutePath(directoryPath)) : IsFile(c) /\ IsSupported(Last(c)) } }

getSubdirectories(t, currentPath) ==
  /\ ~Busy(t) /\ Begin
  /\ LET err == ListError(AbsolutePath(currentPath))
     IN last' = [Response("dirs", 0, err, FALSE) EXCEPT
                   !.path = currentPath,
                   !.out = IF err = "ok" THEN Subdirectories(currentPath) ELSE {}]
  /\ UNCHANGED <<libs, items, files, unreadable, noStat, tasks, nextLibId, nextItemId, scanned>>

getScannableMovies(t, directoryPath) ==
  /\ ~Busy(t) /\ Begin
  /\ LET err == ListError(AbsolutePath(directoryPath))
     IN last' = [Response("movies", 0, err, FALSE) EXCEPT
                   !.path = directoryPath,
                   !.out = IF err = "ok" THEN ScannableMovies(directoryPath) ELSE {}]
  /\ UNCHANGED <<libs, items, files, unreadable, noStat, tasks, nextLibId, nextItemId, scanned>>

----------------------------------------------------------------------------
(* scanLibrary *)

ReadOrSkip(dir) == IF CanRead(dir) THEN readdir(dir) ELSE <<>>

NewItem(filename, filepath, size, probe, libId) ==
  [filename |-> filename, filepath |-> filepath, size |-> size,
   duration |-> DurationOf(probe), library |-> libId, probed |-> probe]

ScanStart(t, libraryId) ==
  /\ ~Busy(t) /\ Begin
  /\ IF FindLibraryById(libraryId) = {}
       THEN /\ last' = Response("scan", libraryId, "NotFound", FALSE)
            /\ UNCHANGED tasks
       ELSE /\ LET library == CHOOSE l \in FindLibraryById(libraryId) : TRUE
               IN tasks' = [tasks EXCEPT ![t] =
                    [Idle EXCEPT !.op = "scan", !.id = libraryId, !.lib = library,
                                 !.work = ReadOrSkip(library.path)]]
            /\ UNCHANGED last
  /\ UNCHANGED <<libs, items, files, unreadable, noStat, nextLibId, nextItemId, scanned>>

(* One iteration of traverseDirectory's loop, for the next entry in        *)
(* depth-first order.                                                      *)
ScanEntry(t) ==
  /\ tasks[t].op = "scan" /\ tasks[t].work # <<>>
  /\ LET filePath == Head(tasks[t].work)
         rest == Tail(tasks[t].work)
     IN IF ~CanStat(filePath)
          THEN tasks' = [tasks EXCEPT ![t].work = rest]
        ELSE IF IsDir(filePath)
          THEN tasks' = [tasks EXCEPT ![t].work = ReadOrSkip(filePath) \o rest]
        ELSE IF IsSupported(Last(filePath)) /\ FindItemByPath(filePath) = {}
          THEN tasks' = [tasks EXCEPT
                 ![t].work = rest,
                 ![t].eff = TRUE,
                 ![t].pending = Append(@, NewItem(Last(filePath), filePath, files[filePath].size,
                                                  files[filePath].probe, tasks[t].lib.id))]
        ELSE tasks' = [tasks EXCEPT ![t].work = rest]
  /\ UNCHANGED <<libs, items, files, unreadable, noStat, last, nextLibId, nextItemId, scanned, ops>>

(* A save under a schema in which filepath is unique *)
SaveFails_UniqueFilepath(pending) ==
  \/ \E k \in 1..Len(pending) : ~ForeignKeyHolds(pending[k].library)
  \/ \E k \in 1..Len(pending) : \E i \in items : i.filepath = pending[k].filepath

(* mediaItemRepository.save(mediaItems): one transaction *)
SaveFails(pending) == \E k \in 1..Len(pending) : ~ForeignKeyHolds(pending[k].library)

ScanSave(t) ==
  /\ tasks[t].op = "scan" /\ tasks[t].work = <<>>
  /\ LET mediaItems == tasks[t].pending
     IN IF Len(mediaItems) = 0
          THEN /\ last' = Response("scan", tasks[t].id, "ok", tasks[t].eff)
               /\ scanned' = scanned \cup {tasks[t].id}
               /\ UNCHANGED <<items, nextItemId>>
        ELSE IF SaveFails(mediaItems)
          THEN /\ last' = AfterSave(Response("scan", tasks[t].id, "Unexpected", tasks[t].eff))
               /\ UNCHANGED <<items, nextItemId, scanned>>
        ELSE /\ items' = items \cup WithIds(mediaItems, nextItemId)
             /\ nextItemId' = nextItemId + Len(mediaItems)
             /\ scanned' = scanned \cup {tasks[t].id}
             /\ last' = AfterSave(Response("scan", tasks[t].id, "ok", TRUE))
  /\ tasks' = [tasks EXCEPT ![t] = Idle]
  /\ UNCHANGED <<libs, files, unreadable, noStat, nextLibId, ops>>

----------------------------------------------------------------------------
(* processUploadedFiles *)

SanitizedRelativePath(filename) == StripLeadingDotDot(Normalize(filename))

UploadTarget(filename) == Resolve(baseDir, SanitizedRelativePath(filename))

(* The path the file is written to, wrapped in a sequence: the target, or  *)
(* the target's basename in the nearest existing ancestor directory; the   *)
(* empty sequence when no directory is found.                              *)
WritePath(absoluteFilePath) ==
  IF existsSync(Dirname(absoluteFilePath)) THEN <<absoluteFilePath>>
  ELSE LET fallbackDir == findExistingDir(Dirname(absoluteFilePath))
       IN IF fallbackDir = <<>> THEN <<>>
          ELSE <<fallbackDir[1] \o <<Basename(absoluteFilePath)>>>>

WritePossible(p) == Len(p) > 0 /\ ExistingDirectory(Dirname(p)) /\ ~IsDir(p)

(* A loop that ends at the first file it skips *)
AfterSkip_Abort(queue) == <<>>

(* continue: the loop goes on with the next file *)
AfterSkip(queue) == Tail(queue)

UploadStart(t, libraryId, batch) ==
  /\ ~Busy(t) /\ Begin
  /\ IF FindLibraryById(libraryId) = {}
       THEN /\ last' = Response("upload", libraryId, "NotFound", FALSE)
            /\ UNCHANGED tasks
       ELSE /\ tasks' = [tasks EXCEPT ![t] =
                 [Idle EXCEPT !.op = "upload", !.id = libraryId, !.work = batch, !.queue = batch,
                              !.lib = CHOOSE l \in FindLibraryById(libraryId) : TRUE]]
            /\ UNCHANGED last
  /\ UNCHANGED <<libs, items, files, unreadable, noStat, nextLibId, nextItemId, scanned>>

UploadFile(t) ==
  /\ tasks[t].op = "upload" /\ tasks[t].queue # <<>>
  /\ LET file == Head(tasks[t].queue)
         rest == Tail(tasks[t].queue)
         absoluteFilePath == UploadTarget(file.filename)
         target == WritePath(absoluteFilePath)
     IN IF FindItemByPath(absoluteFilePath) # {} \/ target = <<>>
          THEN /\ tasks' = [tasks EXCEPT ![t].queue = AfterSkip(tasks[t].queue)]
               /\ UNCHANGED <<files, scanned>>
        ELSE \E written \in BOOLEAN :
               /\ written => WritePossible(target[1])
               /\ IF written
                    THEN /\ files' = [q \in DOMAIN files \cup {target[1]} |->
                              IF q = target[1] THEN [size |-> file.size, probe |-> file.probe]
                              ELSE files[q]]
                         /\ scanned' = {}
                         /\ tasks' = [tasks EXCEPT
                              ![t].queue = rest,
                              ![t].eff = TRUE,
                              ![t].pending = Append(@, NewItem(BasenameStr(file.name), target[1],
                                                               file.size, file.probe, tasks[t].lib.id))]
                    ELSE /\ tasks' = [tasks EXCEPT ![t].queue = AfterSkip(tasks[t].queue)]
                         /\ UNCHANGED <<files, scanned>>
  /\ UNCHANGED <<libs, items, unreadable, noStat, last, nextLibId, nextItemId, ops>>

UploadSave(t) ==
  /\ tasks[t].op = "upload" /\ tasks[t].queue = <<>>
  /\ LET mediaItems == tasks[t].pending
     IN IF Len(mediaItems) = 0
          THEN /\ last' = Response("upload", tasks[t].id, "ok", tasks[t].eff)
               /\ UNCHANGED <<items, nextItemId>>
        ELSE IF SaveFails(mediaItems)
          THEN /\ last' = AfterSave(Response("upload", tasks[t].id, "Unexpected", tasks[t].eff))
               /\ UNCHANGED <<items, nextItemId>>
        ELSE /\ items' = items \cup WithIds(mediaItems, nextItemId)
             /\ nextItemId' = nextItemId + Len(mediaItems)
             /\ last' = AfterSave(Response("upload", tasks[t].id, "ok", TRUE))
  /\ tasks' = [tasks EXCEPT ![t] = Idle]
  /\ UNCHANGED <<libs, files, unreadable, noStat, nextLibId, scanned, ops>>

----------------------------------------------------------------------------
(* The service after construction, and the requests it serves *)

Init ==
  /\ libs = {}
  /\ items = {}
  /\ files = InitialFiles
  /\ unreadable \in SUBSET UnreadableCandidates
  /\ noStat \in SUBSET NoStatCandidates
  /\ tasks = [t \in Slots |-> Idle]
  /\ last = NoResponse
  /\ nextLibId = 1
  /\ nextItemId = 1
  /\ scanned = {}
  /\ ops = 0

(* The requests that change the libraries, the Items or the files *)
Step(t) ==
  \/ \E name \in LibraryNames, pathStr \in LibraryPaths : CreateStart(t, name, pathStr)
  \/ CreateSave(t)
  \/ \E id \in LibIds : DeleteStart(t, id)
  \/ DeleteRemove(t)
  \/ \E id \in LibIds : ScanStart(t, id)
  \/ ScanEntry(t)
  \/ ScanSave(t)
  \/ \E id \in LibIds, batch \in Batches : UploadStart(t, id, batch)
  \/ UploadFile(t)
  \/ UploadSave(t)

(* Requests overlap: each suspends at its awaits *)
Next == \E t \in Slots : Step(t)

Spec == Init /\ [][Next]_vars

(* The two listings, which run to their answer in one step *)
List(t) ==
  \/ \E p \in ListPaths : getSubdirectories(t, p)
  \/ \E p \in ListPaths : getScannableMovies(t, p)

(* Requests one after the other: each completes before the next starts *)
NextSeq == Step(1) \/ List(1)

SpecSeq == Init /\ [][NextSeq]_vars

----------------------------------------------------------------------------
(* What a step is, read off the state it changes *)

(* A request fails at once: it starts and answers in one step *)
AnswersAtOnce(op) == ops' = ops + 1 /\ tasks' = tasks /\ last'.op = op

(* A request starts and suspends at its first await *)
Suspends(t, op) == ops' = ops + 1 /\ tasks[t].op = "idle" /\ tasks'[t].op = op

(* A suspended request answers *)
Resumes(t, op) == tasks[t].op = op /\ tasks'[t].op = "idle"

LibrariesWithId(id) == { l \in libs : l.id = id }

LibrariesNamed(name) == { l \in libs : l.name = name }

ItemsOf(id) == { i \in items : i.library = id }

----------------------------------------------------------------------------
(* C1: a scan of a library that was already scanned to completion, with    *)
(* no file written since, completes without error and leaves the Item     *)
(* collection exactly as it was (requests run one after the other).        *)
C1_ScanIdempotent ==
  [][ \A t \in Slots :
        (Resumes(t, "scan") /\ tasks[t].id \in scanned)
          => (items' = items /\ last'.err = "ok" /\ tasks[t].pending = <<>>) ]_vars

(* A second scan of the library that owns a.mp4 has completed and probed nothing *)
C1_Witness ==
  /\ last.op = "scan" /\ last.err = "ok" /\ ~last.eff /\ last.id \in scanned
  /\ \E i \in items : i.filepath = <<nM, nL, fA>> /\ i.library = last.id

(* C2: no two persisted Items have the same filepath, whatever sequence of *)
(* completed scans and uploads ran.                                        *)
C2_FilepathUnique == \A i, j \in items : i.filepath = j.filepath => i = j

(* C3: every file an upload wrote, and every Item's filepath, is the base  *)
(* directory or lies below it.                                             *)
C3_NoTraversalEscape ==
  /\ \A p \in DOMAIN files : IsPrefix(baseDir, p)
  /\ \A i \in items : IsPrefix(baseDir, i.filepath)
  /\ \A t \in Slots : \A k \in 1..Len(tasks[t].pending) : IsPrefix(baseDir, tasks[t].pending[k].filepath)

(* C4: deleteLibrary of an existing library removes the library and        *)
(* exactly its Items and nothing else; of an unknown id it fails with      *)
(* NotFound and changes nothing.                                           *)
C4_DeleteCascades ==
  [][ /\ \A t \in Slots :
           (Resumes(t, "delete") /\ LibrariesWithId(tasks[t].id) # {})
             => /\ last'.err = "ok"
                /\ libs' = libs \ LibrariesWithId(tasks[t].id)
                /\ items' = items \ ItemsOf(tasks[t].id)
      /\ (AnswersAtOnce("delete"))
           => /\ LibrariesWithId(last'.id) = {}
              /\ last'.err = "NotFound"
              /\ libs' = libs /\ items' = items ]_vars

(* deleteLibrary of a library that owns an Item has answered, and the      *)
(* library and its Items are still there                                   *)
C4_Reached ==
  /\ last.op = "delete" /\ last.err = "Unexpected"
  /\ LibrariesWithId(last.id) # {} /\ ItemsOf(last.id) # {}

(* C5 as amended: createLibrary answers BadRequest when sanitization       *)
(* changes the name, else Conflict when the lookup finds the name, else    *)
(* NotFound when the resolved path is no existing directory; otherwise it  *)
(* saves, and succeeds exactly when the name is still free at the save.    *)
(* A failing call adds no library, a succeeding one adds exactly one.      *)
C5_CreateOutcome ==
  [][ /\ AnswersAtOnce("create") =>
           LET nm == last'.name
               target == AbsolutePath(last'.path)
           IN /\ last'.err \in {"BadRequest", "Conflict", "NotFound"}
              /\ (last'.err = "BadRequest") <=> (sanitize(nm) # nm)
              /\ (last'.err = "Conflict") <=> (sanitize(nm) = nm /\ LibrariesNamed(nm) # {})
              /\ (last'.err = "NotFound") <=>
                   (sanitize(nm) = nm /\ LibrariesNamed(nm) = {} /\ target \notin Dirs)
              /\ libs' = libs
      /\ \A t \in Slots :
           /\ Suspends(t, "create") =>
                /\ sanitize(tasks'[t].name) = tasks'[t].name
                /\ LibrariesNamed(tasks'[t].name) = {}
                /\ AbsolutePath(tasks'[t].path) \in Dirs
                /\ libs' = libs
           /\ Resumes(t, "create") =>
                /\ (last'.err = "ok") <=> (LibrariesNamed(tasks[t].name) = {})
                /\ last'.err = "ok" =>
                     /\ Cardinality(libs') = Cardinality(libs) + 1
                     /\ \E l \in libs' \ libs :
                          /\ libs' = libs \cup {l}
                          /\ l.name = tasks[t].name
                          /\ l.path = AbsolutePath(tasks[t].path)
                /\ last'.err # "ok" => (last'.err = "Unexpected" /\ libs' = libs) ]_vars

(* A second library was created after lookups that found its name free *)
C5_Witness ==
  /\ last.op = "create" /\ last.err = "ok" /\ Cardinality(libs) = 2
  /\ \A l1, l2 \in libs : l1.name = l2.name => l1 = l2

(* C5 as stated: createLibrary succeeds exactly when the name is unchanged *)
(* by sanitization and no library has it, whatever the path.               *)
C5_CreateIffNameOk ==
  [][ (AnswersAtOnce("create") \/ \E t \in Slots : Resumes(t, "create")) =>
        LET nm == last'.name
        IN /\ (last'.err = "ok") <=> (sanitize(nm) = nm /\ LibrariesNamed(nm) = {})
           /\ (sanitize(nm) # nm) => last'.err = "BadRequest"
           /\ (sanitize(nm) = nm /\ LibrariesNamed(nm) # {}) => last'.err = "Conflict"
           /\ last'.err # "ok" => libs' = libs ]_vars

(* C6: every persisted Item references a library that exists, under every  *)
(* interleaving of scans, uploads and deletions.                           *)
C6_NoOrphanedItem == \A i \in items : LibrariesWithId(i.library) # {}

(* A scan or upload whose library was deleted while it was suspended       *)
(* reached its save with Items to persist, and none of them was persisted  *)
C6_Witness ==
  /\ last.op \in {"scan", "upload"} /\ last.err = "Unexpected" /\ last.eff
  /\ LibrariesWithId(last.id) = {}

----------------------------------------------------------------------------
(* Reading a stored duration back *)

RECURSIVE FieldsFrom(_, _, _)
FieldsFrom(s, i, cur) ==
  IF i > Len(s) THEN <<cur>>
  ELSE IF s[i] = ":" THEN <<cur>> \o FieldsFrom(s, i + 1, <<>>)
  ELSE FieldsFrom(s, i + 1, Append(cur, s[i]))

Digits == {"0", "1", "2", "3", "4", "5", "6", "7", "8", "9"}

DigitValue(c) ==
  CASE c = "0" -> 0 [] c = "1" -> 1 [] c = "2" -> 2 [] c = "3" -> 3 [] c = "4" -> 4
    [] c = "5" -> 5 [] c = "6" -> 6 [] c = "7" -> 7 [] c = "8" -> 8 [] OTHER -> 9

RECURSIVE NumberValue(_)
NumberValue(s) == IF Len(s) = 0 THEN 0 ELSE 10 * NumberValue(Front(s)) + DigitValue(Last(s))

ReadsAs(str, t) ==
  LET f == FieldsFrom(str, 1, <<>>)
  IN /\ Len(f) = 3
     /\ \A k \in 1..3 : Len(f[k]) >= 2 /\ \A j \in 1..Len(f[k]) : f[k][j] \in Digits
     /\ Len(f[2]) = 2 /\ Len(f[3]) = 2
     /\ Len(f[1]) > 2 => f[1][1] # "0"
     /\ NumberValue(f[1]) = t \div 36000
     /\ NumberValue(f[2]) = (t % 36000) \div 600
     /\ NumberValue(f[3]) = (t % 600) \div 10

DurationAsClaimed(i) ==
  /\ (~i.probed.ok \/ ~i.probed.hasDur) => i.duration.isNull
  /\ (i.probed.ok /\ i.probed.hasDur) =>
       /\ ~i.duration.isNull
       /\ ReadsAs(i.duration.str, i.probed.t)
       /\ i.probed.t = 54257 => i.duration.str = <<"0", "1", ":", "3", "0", ":", "2", "5">>
       /\ i.probed.t = 0 => i.duration.str = <<"0", "0", ":", "0", "0", ":", "0", "0">>

(* C7: the duration of every Item created by scan or upload is null when   *)
(* the probe failed or reported none, and otherwise reads HH:MM:SS with    *)
(* the floors of the probed seconds, each field padded to two digits.      *)
C7_StoredDuration ==
  /\ \A i \in items : DurationAsClaimed(i)
  /\ \A t \in Slots : \A k \in 1..Len(tasks[t].pending) : DurationAsClaimed(tasks[t].pending[k])

(* Items with a truncated duration (5425.7 s), with one just below a full  *)
(* hour (3599.9 s), with a null one after a failed probe, and with one     *)
(* made by an upload are all persisted                                     *)
C7_Witness ==
  /\ \E i \in items : i.probed = ProbeDur(54257) /\ ~i.duration.isNull
  /\ \E i \in items :
       i.probed = ProbeDur(35999) /\ i.duration.str = <<"0", "0", ":", "5", "9", ":", "5", "9">>
  /\ \E i \in items : ~i.probed.ok /\ i.duration.isNull
  /\ \E i \in items : i.filepath \notin DOMAIN InitialFiles /\ ~i.duration.isNull

----------------------------------------------------------------------------
(* C8: scanLibrary and processUploadedFiles of an id with no library fail  *)
(* with NotFound in their first step, with no Item persisted, no file      *)
(* written and no probe run; with the library present they go on instead.  *)
C8_NotFoundBeforeEffect ==
  [][ /\ \A op \in {"scan", "upload"} :
           /\ AnswersAtOnce(op) =>
                /\ LibrariesWithId(last'.id) = {}
                /\ last'.err = "NotFound"
                /\ ~last'.eff
                /\ items' = items /\ files' = files /\ libs' = libs
           /\ \A t \in Slots : Suspends(t, op) =>
                /\ LibrariesWithId(tasks'[t].id) # {}
                /\ ~tasks'[t].eff /\ tasks'[t].pending = <<>>
      /\ (last'.op \in {"scan", "upload"} /\ last'.err = "NotFound") => ~last'.eff ]_vars

(* An upload to an unknown id was refused while another library exists and *)
(* nothing but the initial files is on disk                                *)
C8_Witness ==
  /\ last.op = "upload" /\ last.err = "NotFound"
  /\ libs # {} /\ items = {} /\ files = InitialFiles

(* The names of the members of S directly inside dir *)
ChildNames(dir, S) == { Last(p) : p \in { c \in S : Len(c) = Len(dir) + 1 /\ Front(c) = dir } }

(* C9: both listings fail with NotFound when the target is missing or a    *)
(* regular file, with Forbidden when it is a directory that cannot be      *)
(* read, and otherwise return entries of that one directory only; they     *)
(* change neither the libraries, the Items nor the files.                  *)
C9_Listing ==
  [][ (AnswersAtOnce("dirs") \/ AnswersAtOnce("movies")) =>
        LET target == AbsolutePath(last'.path)
            names == { e.name : e \in last'.out }
        IN /\ (last'.err = "NotFound") <=> (target \notin Dirs)
           /\ (last'.err = "Forbidden") <=> (target \in Dirs /\ target \in unreadable)
           /\ (last'.err = "ok") <=> (target \in Dirs /\ target \notin unreadable)
           /\ last'.err # "ok" => last'.out = {}
           /\ (last'.err = "ok" /\ last'.op = "dirs") => names = ChildNames(target, Dirs)
           /\ (last'.err = "ok" /\ last'.op = "movies") =>
                /\ names \subseteq ChildNames(target, DOMAIN files)
                /\ \A n \in ChildNames(target, DOMAIN files) :
                     (n \in names) <=> (ToLowerCase(Extname(n)) \in supportedExtensions)
           /\ libs' = libs /\ items' = items /\ files' = files
           /\ unreadable' = unreadable /\ noStat' = noStat ]_vars

(* getScannableMovies of a path that is a regular file answered NotFound *)
C9_Witness ==
  /\ last.op = "movies" /\ last.err = "NotFound"
  /\ AbsolutePath(last.path) \in DOMAIN files

(* C10: the client receives 404 for NotFound, 403 for Forbidden, a 4xx for *)
(* InvalidInput and Conflict, and 500 for any other failure.               *)
C10_StatusMapping ==
  last.op # "none" =>
    /\ last.err = "NotFound" => last.http = 404
    /\ last.err = "Forbidden" => last.http = 403
    /\ last.err \in {"BadRequest", "Conflict"} => (last.http >= 400 /\ last.http <= 499)
    /\ last.err = "Unexpected" => last.http = 500

----------------------------------------------------------------------------
(* The files a walk from root reaches: below root, stat-able, with every   *)
(* directory on the way readable and every one after root stat-able.       *)
OnTheWay(root, p) == { SubSeq(p, 1, n) : n \in Len(root)..(Len(p) - 1) }

ReachableFrom(root) ==
  { p \in DOMAIN files :
      /\ Len(p) > Len(root) /\ IsPrefix(root, p)
      /\ p \notin noStat
      /\ \A d \in OnTheWay(root, p) :
           d \in Dirs /\ d \notin unreadable /\ (d # root => d \notin noStat) }

ExpectedOfScan(lib) ==
  { [filename |-> Last(p), filepath |-> p, size |-> files[p].size, library |-> lib.id] :
      p \in { q \in ReachableFrom(lib.path) :
                /\ ToLowerCase(Extname(Last(q))) \in supportedExtensions
                /\ \A i \in items : i.filepath # q } }

Described(S) ==
  { [filename |-> i.filename, filepath |-> i.filepath, size |-> i.size, library |-> i.library] :
      i \in S }

(* C11: with requests one after the other, every scan of an existing       *)
(* library completes without error and persists a new Item for exactly    *)
(* the files it can reach through readable directories, can stat, that     *)
(* have a supported extension in any letter case and have no Item with     *)
(* their filepath yet; each Item has the file's name, path, size and the   *)
(* scanned library.                                                        *)
C11_ScanResult ==
  [][ \A t \in Slots : Resumes(t, "scan") =>
        /\ last'.err = "ok"
        /\ items \subseteq items'
        /\ Described(items' \ items) = ExpectedOfScan(tasks[t].lib)
        /\ Cardinality(items' \ items) = Cardinality(ExpectedOfScan(tasks[t].lib)) ]_vars

(* A scan completed that skipped a.mp4, which cannot be stat-ed, and       *)
(* indexed b.MKV from the subdirectory, whose probe failed                 *)
C11_Witness ==
  /\ last.op = "scan" /\ last.err = "ok" /\ noStat # {}
  /\ \E i \in items : i.filepath = <<nM, nL, nS, fB>> /\ i.library = last.id /\ i.duration.isNull
  /\ \A i \in items : i.filepath # <<nM, nL, fA>>
  /\ \E i \in items : i.filepath = <<nM, nL, fD>> /\ i.library = last.id

----------------------------------------------------------------------------
DescribedBatch(pending) == Described({ pending[k] : k \in 1..Len(pending) })

(* C12: while a scan walks the tree, its steps persist nothing; when the   *)
(* walk has finished the scan issues no save if it accumulated no Item,    *)
(* and otherwise one save that persists all accumulated Items together or, *)
(* when it fails, none of them.                                            *)
C12_BatchedSave ==
  [][ \A t \in Slots :
        /\ (Suspends(t, "scan") \/ (tasks[t].op = "scan" /\ tasks'[t].op = "scan" /\ tasks'[t] # tasks[t]))
             => (items' = items /\ nextItemId' = nextItemId /\ last' = last)
        /\ Resumes(t, "scan") =>
             /\ tasks[t].work = <<>>
             /\ items \subseteq items'
             /\ tasks[t].pending = <<>> => (last'.saves = 0 /\ items' = items)
             /\ tasks[t].pending # <<>> =>
                  /\ last'.saves = 1
                  /\ last'.err = "ok" =>
                       /\ Described(items' \ items) = DescribedBatch(tasks[t].pending)
                       /\ Cardinality(items' \ items) = Len(tasks[t].pending)
                  /\ last'.err # "ok" => items' = items ]_vars

(* A scan that accumulated several Items is at the end of its walk with    *)
(* none of them persisted yet                                              *)
C12_Witness ==
  \E t \in Slots :
    /\ tasks[t].op = "scan" /\ tasks[t].work = <<>> /\ Len(tasks[t].pending) >= 2
    /\ \A k \in 1..Len(tasks[t].pending) :
         \A i \in items : i.filepath # tasks[t].pending[k].filepath

----------------------------------------------------------------------------
(* C13: with requests one after the other, each step of an upload's loop   *)
(* handles the next file of the batch whatever happened to the one before: *)
(* a file that is already indexed or whose write fails leaves disk and     *)
(* batch as they were, every other file is written and adds one Item to    *)
(* the batch; the call then answers without error, with no save for an     *)
(* empty batch and otherwise one save of exactly the batch.                *)
C13_BestEffortIngest ==
  [][ \A t \in Slots :
        /\ (tasks[t].op = "upload" /\ tasks'[t].op = "upload" /\ tasks'[t] # tasks[t]) =>
             LET file == Head(tasks[t].queue)
                 lookedUp == UploadTarget(file.filename)
                 indexed == \E i \in items : i.filepath = lookedUp
                 before == tasks[t].pending
                 after == tasks'[t].pending
             IN /\ tasks[t].queue # <<>>
                /\ tasks'[t].queue = Tail(tasks[t].queue)
                /\ items' = items /\ last' = last
                /\ indexed => (after = before /\ files' = files)
                /\ \/ after = before /\ files' = files
                   \/ /\ ~indexed
                      /\ Len(after) = Len(before) + 1
                      /\ SubSeq(after, 1, Len(before)) = before
                      /\ LET new == after[Len(after)]
                         IN /\ new.library = tasks[t].id
                            /\ new.size = file.size
                            /\ new.filepath \in DOMAIN files'
                            /\ files'[new.filepath].size = file.size
                            /\ \A q \in DOMAIN files : q # new.filepath => files'[q] = files[q]
        /\ Resumes(t, "upload") =>
             /\ tasks[t].queue = <<>>
             /\ last'.err = "ok"
             /\ tasks[t].pending = <<>> => (last'.saves = 0 /\ items' = items)
             /\ tasks[t].pending # <<>> =>
                  /\ last'.saves = 1
                  /\ items \subseteq items'
                  /\ Described(items' \ items) = DescribedBatch(tasks[t].pending)
                  /\ Cardinality(items' \ items) = Len(tasks[t].pending) ]_vars

(* An upload of two files has reached its save with one Item: the write of *)
(* one file failed and the other file was still written                    *)
C13_Witness ==
  \E t \in Slots :
    /\ tasks[t].op = "upload" /\ Len(tasks[t].work) = 2 /\ tasks[t].queue = <<>>
    /\ Len(tasks[t].pending) = 1
    /\ tasks[t].pending[1].filepath \in DOMAIN files
    /\ \A i \in items : i.filepath # tasks[t].pending[1].filepath

----------------------------------------------------------------------------
(* C14: scans of one library that overlap are not serialized: a scan whose *)
(* library still exists persists every Item it accumulated, whatever       *)
(* another scan persisted since its lookups, so two overlapping scans that *)
(* both found a file not indexed both persist an Item for it.              *)
C14_ScansNotSerialized ==
  [][ \A t \in Slots :
        (Resumes(t, "scan") /\ LibrariesWithId(tasks[t].id) # {}) =>
          /\ last'.err = "ok"
          /\ Cardinality(items' \ items) = Len(tasks[t].pending)
          /\ \A k \in 1..Len(tasks[t].pending) :
               \E i \in items' \ items : i.filepath = tasks[t].pending[k].filepath ]_vars

(* Two scans of one library are both past the lookup of a.mp4, neither has *)
(* saved, and each holds an Item for it                                    *)
C14_Witness ==
  \E t, u \in Slots :
    /\ t # u /\ tasks[t].op = "scan" /\ tasks[u].op = "scan" /\ tasks[t].id = tasks[u].id
    /\ \E k \in 1..Len(tasks[t].pending) : tasks[t].pending[k].filepath = <<nM, nL, fA>>
    /\ \E k \in 1..Len(tasks[u].pending) : tasks[u].pending[k].filepath = <<nM, nL, fA>>
    /\ \A i \in items : i.filepath # <<nM, nL, fA>>

----------------------------------------------------------------------------
====
